---- MODULE Spec2Model ----
(***************************************************************************)
(* Model of the dotfiles configuration reconciliation engine:              *)
(*   src/src/config_manager.py  ConfigManager  (profiles, conflicts, links) *)
(*   src/src/backup.py          BackupManager  (session backups, manifest)  *)
(*   src/src/installer.py       DotfilesInstaller.run (the pipeline)        *)
(* The filesystem is a finite tree of paths; symbolic links are resolved    *)
(* component by component as pathlib / POSIX do.                            *)
(***************************************************************************)
EXTENDS Integers, Sequences, FiniteSets, TLC

VARIABLES
    fs,            \* the filesystem: path -> node
    pre,           \* the filesystem before the last call
    config_paths,  \* profile["config_paths"]: ordered <<name, target path>> pairs
    hist,          \* the calls made so far, oldest first
    deploy_results,  \* returned map of the last deploy_configs
    backup_results,  \* returned map of the last backup_configs
    conflicts,     \* returned list of the last check_conflicts
    link,          \* arguments and return value of the last create_symlink
    removed,       \* targets removed by the last deploy_configs / create_symlink
    backup_log,    \* BackupManager.backup_log
    pre_log,       \* backup_log before the last call
    manifest,      \* what save_backup_log wrote to backup_log.txt
    pc,            \* position of DotfilesInstaller.run
    profiles,      \* the profile store: profile name -> document
    merged         \* outcome of the last merge_profiles

vars == <<fs, pre, config_paths, hist, deploy_results, backup_results, conflicts, link, removed,
          backup_log, pre_log, manifest, pc, profiles, merged>>

----------------------------------------------------------------------------
(* Bounds of the model *)

\* longest sequence of library calls in one behaviour
MaxCalls == 2
\* longest overlay list handed to merge_profiles
MaxOverlays == 3
\* number of symbolic links followed before resolution gives up
MaxLinkDepth == 4

----------------------------------------------------------------------------
(* Paths *)

Home == <<"home">>
DotfilesRoot == <<"dot">>
\* ConfigManager.__init__: self.configs_dir = self.dotfiles_root / "configs"
configs_dir == DotfilesRoot \o <<"configs">>
\* DotfilesInstaller.__init__: BackupManager(self.dotfiles_root / "backups")
backup_root == DotfilesRoot \o <<"backups">>
\* BackupManager.__init__: self.backup_dir = self.backup_root / self.timestamp
timestamp == "T"
backup_dir == backup_root \o <<timestamp>>
\* save_backup_log: log_file = self.backup_dir / "backup_log.txt"
log_file == backup_dir \o <<"backup_log.txt">>

\* ToolInstaller.install_oh_my_zsh: Path.home() / ".oh-my-zsh"
oh_my_zsh_dir == Home \o <<".oh-my-zsh">>
\* ToolInstaller.install_zsh_plugin: Path.home() / ".oh-my-zsh/custom/plugins"
custom_plugins == oh_my_zsh_dir \o <<"custom", "plugins">>
\* ToolInstaller.install_zsh_plugin: Path.home() / ".oh-my-zsh/custom/themes/powerlevel10k"
custom_themes == oh_my_zsh_dir \o <<"custom", "themes">>
\* the files the oh-my-zsh install script writes and keeps
zshrc == Home \o <<".zshrc">>
zshrc_old == Home \o <<".zshrc.pre-oh-my-zsh">>

Names == {"a", "b"}

\* target paths as written in a profile ("~" is the home placeholder)
Targets == { <<"~", "p">>, <<"~", "p", "q">>, <<"~", "r">> }

AllPaths ==
    { Home, Home \o <<"p">>, Home \o <<"p", "q">>, Home \o <<"p", "x">>,
      Home \o <<"r">>, Home \o <<"o">>,
      zshrc, zshrc_old, oh_my_zsh_dir, oh_my_zsh_dir \o <<"custom">>, custom_plugins,
      custom_plugins \o <<"zsh-autosuggestions">>,
      custom_plugins \o <<"zsh-syntax-highlighting">>,
      custom_themes, custom_themes \o <<"powerlevel10k">>,
      DotfilesRoot, configs_dir,
      configs_dir \o <<"a">>, configs_dir \o <<"a", "q">>,
      configs_dir \o <<"b">>,
      backup_root, backup_dir,
      backup_dir \o <<"a">>, backup_dir \o <<"a", "q">>,
      backup_dir \o <<"b">>, backup_dir \o <<"b", "q">>,
      backup_dir \o <<"p">>, backup_dir \o <<"p", "q">>,
      backup_dir \o <<"q">>, backup_dir \o <<"r">>,
      log_file }

Parent(p) == SubSeq(p, 1, Len(p) - 1)
Name(p) == p[Len(p)]
IsPrefix(p, q) == Len(p) <= Len(q) /\ SubSeq(q, 1, Len(p)) = p

\* Path.expanduser: a leading "~" is replaced by the home directory
ExpandUser(p) == IF p # <<>> /\ p[1] = "~" THEN Home \o Tail(p) ELSE p

----------------------------------------------------------------------------
(* Filesystem nodes *)

None == [k |-> "none", to |-> <<>>, d |-> 0, r |-> TRUE]
Dir == [k |-> "dir", to |-> <<>>, d |-> 0, r |-> TRUE]
\* a directory of mode 000: it can be neither listed nor searched
DirNoAccess == [k |-> "dir", to |-> <<>>, d |-> 0, r |-> FALSE]
File(d, r) == [k |-> "file", to |-> <<>>, d |-> d, r |-> r]
Fifo == [k |-> "fifo", to |-> <<>>, d |-> 0, r |-> TRUE]
Link(to) == [k |-> "link", to |-> to, d |-> 0, r |-> TRUE]

NodeAt(f, p) == IF p = <<>> THEN Dir ELSE IF p \in AllPaths THEN f[p] ELSE None

\* os.path.realpath(p, strict=False): every symbolic link followed
RECURSIVE Real(_, _, _)
Real(f, p, n) ==
    IF p = <<>> THEN <<>>
    ELSE LET par == Real(f, Parent(p), n)
             phys == Append(par, Name(p))
             nd == NodeAt(f, phys)
         IN  IF nd.k = "link" /\ n > 0 THEN Real(f, nd.to, n - 1) ELSE phys

\* Path.resolve()
Resolve(f, p) == Real(f, p, MaxLinkDepth)

\* where the last component of p lives: the parent resolved, the name kept
PhysOf(f, p) == Append(Resolve(f, Parent(p)), Name(p))

\* os.lstat / os.stat
Lstat(f, p) == NodeAt(f, PhysOf(f, p))
Stat(f, p) == LET nd == NodeAt(f, Resolve(f, p)) IN IF nd.k = "link" THEN None ELSE nd

\* a directory above the physical path cannot be searched
Blocked(f, phys) ==
    \E i \in 1..(Len(phys) - 1) :
        NodeAt(f, SubSeq(phys, 1, i)).k = "dir" /\ ~NodeAt(f, SubSeq(phys, 1, i)).r

\* os.stat(p) fails with EACCES; Path.exists re-raises it as PermissionError
Denied(f, p) == Blocked(f, PhysOf(f, p)) \/ Blocked(f, Resolve(f, p))

\* Path.exists, Path.is_symlink, Path.is_dir, Path.is_file where stat is allowed
Exists(f, p) == Stat(f, p).k # "none"
IsSymlink(f, p) == Lstat(f, p).k = "link"
IsDir(f, p) == Stat(f, p).k = "dir"
IsFile(f, p) == Stat(f, p).k = "file"

Put(f, p, nd) == IF p \in AllPaths THEN [f EXCEPT ![p] = nd] ELSE f

\* Path.unlink: [fs, ok]
OsUnlink(f, p) ==
    LET phys == PhysOf(f, p)
        nd == NodeAt(f, phys)
    IN  IF nd.k \in {"none", "dir"} THEN [fs |-> f, ok |-> FALSE]
        ELSE [fs |-> Put(f, phys, None), ok |-> TRUE]

\* names of the entries of directory p (os.scandir)
Entries(f, p) ==
    { Name(q) : q \in { x \in AllPaths : Parent(x) = Resolve(f, p) /\ f[x].k # "none" } }

\* the names of the model in one fixed order, and in the opposite one
ListingOrder ==
    <<".oh-my-zsh", ".zshrc", ".zshrc.pre-oh-my-zsh", "T", "a", "b", "backup_log.txt",
      "backups", "configs", "custom", "o", "p", "plugins", "powerlevel10k", "q", "r",
      "themes", "x", "zsh-autosuggestions", "zsh-syntax-highlighting">>
Backwards(s) == [i \in 1..Len(s) |-> s[Len(s) + 1 - i]]

\* the entries of directory p in the order os.scandir yields them: the order is
\* the operating system's, which specifies none, least of all after an entry
\* was created; `rev` is the order a call meets (no directory that is removed
\* holds more than two entries, so two orders are all there are)
ScanDir(f, p, rev) ==
    SelectSeq(IF rev THEN Backwards(ListingOrder) ELSE ListingOrder,
              LAMBDA n : n \in Entries(f, p))

\* shutil.rmtree(p): [fs, ok]; refuses a symbolic link; removes the entries in
\* the order of os.scandir, a directory after its content, and stops at the first
\* entry it cannot remove, leaving removed what it removed before
RECURSIVE RmTree(_, _, _)
RECURSIVE RmEntries(_, _, _, _)
\* os.rmdir(p) once the content is gone
RmDirAfter(r, phys) ==
    IF ~r.ok THEN r ELSE [fs |-> Put(r.fs, phys, None), ok |-> TRUE]

\* one entry of the walk: a directory recursively, anything else unlinked
RmEntry(f, at, rev) ==
    IF NodeAt(f, at).k = "dir" THEN RmTree(f, at, rev) ELSE OsUnlink(f, at)

RmEntriesAfter(one, dir, names, rev) ==
    IF ~one.ok THEN one ELSE RmEntries(one.fs, dir, names, rev)

RmEntries(f, dir, names, rev) ==
    IF names = <<>> THEN [fs |-> f, ok |-> TRUE]
    ELSE RmEntriesAfter(RmEntry(f, Append(dir, names[1]), rev), dir, Tail(names), rev)

RmTree(f, p, rev) ==
    \* os.open of a directory of mode 000: PermissionError
    IF NodeAt(f, PhysOf(f, p)).k # "dir" \/ ~NodeAt(f, PhysOf(f, p)).r
    THEN [fs |-> f, ok |-> FALSE]
    ELSE RmDirAfter(RmEntries(f, PhysOf(f, p), ScanDir(f, PhysOf(f, p), rev), rev),
                    PhysOf(f, p))

\* os.mkdir(p): [fs, ok]
OsMkdir(f, p) ==
    IF Lstat(f, p).k = "none" /\ IsDir(f, Parent(p)) /\ PhysOf(f, p) \in AllPaths
    THEN [fs |-> Put(f, PhysOf(f, p), Dir), ok |-> TRUE]
    ELSE [fs |-> f, ok |-> FALSE]

\* Path.mkdir after self.parent.mkdir(parents=True, exist_ok=True) returned `up`
MkdirAfterParents(up, p) == IF ~up.ok THEN up ELSE OsMkdir(up.fs, p)

\* Path.mkdir(parents=True, exist_ok=True): [fs, ok]
RECURSIVE MkdirP(_, _)
MkdirP(f, p) ==
    IF p = <<>> THEN [fs |-> f, ok |-> TRUE]
    ELSE IF Lstat(f, p).k # "none"
         \* os.mkdir: FileExistsError, forgiven when the path is a directory
         THEN [fs |-> f, ok |-> IsDir(f, p)]
    ELSE IF Exists(f, Parent(p))
         \* os.mkdir succeeds in a directory, NotADirectoryError otherwise
         THEN OsMkdir(f, p)
    \* FileNotFoundError: the parents first, then the directory again
    ELSE MkdirAfterParents(MkdirP(f, Parent(p)), p)

\* Path.symlink_to(source): [fs, ok]
OsSymlink(f, source, target) ==
    IF Lstat(f, target).k = "none" /\ IsDir(f, Parent(target))
       /\ PhysOf(f, target) \in AllPaths
    THEN [fs |-> Put(f, PhysOf(f, target), Link(source)), ok |-> TRUE]
    ELSE [fs |-> f, ok |-> FALSE]

\* the write of copy2: the source node nd lands at path `at`
CopyNode(f, nd, at) ==
    IF nd.k = "file" /\ nd.r /\ IsDir(f, Parent(at)) /\ at \in AllPaths
       /\ NodeAt(f, at).k \in {"none", "file"}
    THEN [fs |-> Put(f, at, File(nd.d, nd.r)), ok |-> TRUE]
    ELSE [fs |-> f, ok |-> FALSE]

\* shutil.copy2(src, dst): [fs, ok]; follows links, copies regular files only,
\* copies into dst when dst is a directory
CopyFile(f, src, dst) ==
    CopyNode(f, Stat(f, src),
             Resolve(f, IF IsDir(f, dst) THEN Append(dst, Name(src)) ELSE dst))

\* shutil.copytree(src, dst, symlinks=True): [fs, ok]
\* an entry that cannot be copied is skipped and reported when the walk ends
RECURSIVE CopyTree(_, _, _)
RECURSIVE CopyEntries(_, _, _, _)

\* one entry of the walk: a link as a link, a directory recursively, else copy2
CopyEntry(f, s, t) ==
    IF IsSymlink(f, s) THEN OsSymlink(f, Lstat(f, s).to, t)
    ELSE IF IsDir(f, s) THEN CopyTree(f, s, t)
    ELSE CopyFile(f, s, t)

Both(one, rest) == [fs |-> rest.fs, ok |-> one.ok /\ rest.ok]
CopyRest(one, src, dst, todo) == Both(one, CopyEntries(one.fs, src, dst, todo))
CopyFrom(f, src, dst, todo, n) ==
    CopyRest(CopyEntry(f, Append(src, n), Append(dst, n)), src, dst, todo \ {n})

CopyEntries(f, src, dst, todo) ==
    IF todo = {} THEN [fs |-> f, ok |-> TRUE]
    ELSE CopyFrom(f, src, dst, todo, CHOOSE x \in todo : TRUE)

\* copytree once os.makedirs(dst) returned `mk`
CopyInto(mk, src, dst) ==
    IF ~mk.ok THEN mk ELSE CopyEntries(mk.fs, src, dst, Entries(mk.fs, src))

CopyTree(f, src, dst) ==
    \* os.scandir(src) needs a directory it may list, os.makedirs(dst) a free name
    IF ~IsDir(f, src) \/ ~Stat(f, src).r \/ Lstat(f, dst).k # "none"
    THEN [fs |-> f, ok |-> FALSE]
    ELSE CopyInto(MkdirP(f, dst), src, dst)

----------------------------------------------------------------------------
(* ConfigManager *)

Returned(f, ret, removal) == [fs |-> f, ret |-> ret, removed |-> removal]

\* line 80: target.exists() or target.is_symlink()
TargetPresent(f, target) == Exists(f, target) \/ IsSymlink(f, target)

\* a test of line 81 that takes any symbolic link at the target for ours
AlreadyThere_AnyLink(f, source, target) == IsSymlink(f, target)

\* line 81: target.is_symlink() and target.resolve() == source
AlreadyThere(f, source, target) == IsSymlink(f, target) /\ Resolve(f, target) = source

\* the removal branch of create_symlink: the target unlinked or removed recursively
RemoveExisting(f, target, rev) ==
    IF IsSymlink(f, target) THEN OsUnlink(f, target)
    ELSE IF IsDir(f, target) THEN RmTree(f, target, rev)
    ELSE OsUnlink(f, target)

\* symlink_to once target.parent.mkdir returned `mk`
LinkAfterMkdir(mk, source, target) ==
    IF ~mk.ok THEN mk ELSE OsSymlink(mk.fs, source, target)

\* the tail of create_symlink: parent directories, then the link: [fs, ok]
MakeLink(f, source, target) ==
    LinkAfterMkdir(MkdirP(f, Parent(target)), source, target)

Linked(ml, removal) == Returned(ml.fs, ml.ok, removal)

\* the entry at the target when create_symlink removes it
Removal(f, target) ==
    [target |-> target, phys |-> PhysOf(f, target), node |-> Lstat(f, target)]

\* a create_symlink that reports success once the old target is gone
AfterRemoval_LeavesEmpty(rm, source, target, removal) ==
    IF ~rm.ok THEN Returned(rm.fs, FALSE, <<>>) ELSE Returned(rm.fs, TRUE, removal)

\* create_symlink once the removal returned `rm`
AfterRemoval(rm, source, target, removal) ==
    IF ~rm.ok THEN Returned(rm.fs, FALSE, <<>>)
    ELSE Linked(MakeLink(rm.fs, source, target), removal)

\* a create_symlink that replaces the target whatever force says
CreateSymlinkAt_IgnoresForce(f, source, target, force, rev) ==
    IF ~Exists(f, source) THEN Returned(f, FALSE, <<>>)
    ELSE IF TargetPresent(f, target)
    THEN IF AlreadyThere(f, source, target) THEN Returned(f, TRUE, <<>>)
         ELSE AfterRemoval(RemoveExisting(f, target, rev), source, target,
                           <<Removal(f, target)>>)
    ELSE Linked(MakeLink(f, source, target), <<>>)

\* create_symlink on the resolved source and the expanded target
CreateSymlinkAt(f, source, target, force, rev) ==
    IF ~Exists(f, source) THEN Returned(f, FALSE, <<>>)
    ELSE IF TargetPresent(f, target)
    THEN IF AlreadyThere(f, source, target) THEN Returned(f, TRUE, <<>>)
         ELSE IF ~force THEN Returned(f, FALSE, <<>>)
         ELSE AfterRemoval(RemoveExisting(f, target, rev), source, target,
                           <<Removal(f, target)>>)
    ELSE Linked(MakeLink(f, source, target), <<>>)

\* ConfigManager.create_symlink(source, target, force): [fs, ret, removed]
create_symlink(f, source, target, force, rev) ==
    CreateSymlinkAt(f, Resolve(f, source), ExpandUser(target), force, rev)

\* the body of the loop of deploy_configs for one entry
DeployOne(f, config_name, target_path, force, rev) ==
    IF ~Exists(f, Append(configs_dir, config_name)) THEN Returned(f, FALSE, <<>>)
    ELSE create_symlink(f, Append(configs_dir, config_name), target_path, force, rev)

DeployJoin(config_name, one, rest) ==
    [fs |-> rest.fs,
     results |-> <<<<config_name, one.ret>>>> \o rest.results,
     removed |-> one.removed \o rest.removed]

\* ConfigManager.deploy_configs(profile, force): [fs, results, removed]
\* results: <<name, success>> in the order of config_paths
RECURSIVE deploy_configs(_, _, _, _)

\* a loop that ends at the first entry that fails
DeployRest_StopsAtFailure(one, cp, force, rev) ==
    IF ~one.ret
    THEN [fs |-> one.fs, results |-> <<<<cp[1][1], FALSE>>>>, removed |-> one.removed]
    ELSE DeployJoin(cp[1][1], one, deploy_configs(one.fs, Tail(cp), force, rev))

DeployRest(one, cp, force, rev) ==
    DeployJoin(cp[1][1], one, deploy_configs(one.fs, Tail(cp), force, rev))

deploy_configs(f, cp, force, rev) ==
    IF cp = <<>> THEN [fs |-> f, results |-> <<>>, removed |-> <<>>]
    ELSE DeployRest(DeployOne(f, cp[1][1], cp[1][2], force, rev), cp, force, rev)

\* a classification that tests for a directory before it tests for a link
ItemType_DirectoryFirst(f, target) ==
    IF IsDir(f, target) THEN "directory"
    ELSE IF IsSymlink(f, target) THEN "symlink"
    ELSE "file"

\* the type check_conflicts reports for an existing target
ItemType(f, target) ==
    IF IsSymlink(f, target) THEN "symlink"
    ELSE IF IsDir(f, target) THEN "directory"
    ELSE "file"

\* a test for "already our symlink" that does not ask whether the source exists
AlreadyLinked_SourceUnchecked(f, config_name, target) ==
    /\ IsSymlink(f, target)
    /\ Resolve(f, target) = Resolve(f, Append(configs_dir, config_name))

\* the test of check_conflicts for "already our symlink"
AlreadyLinked(f, config_name, target) ==
    /\ IsSymlink(f, target)
    /\ Exists(f, Append(configs_dir, config_name))
    /\ Resolve(f, target) = Resolve(f, Append(configs_dir, config_name))

\* the body of the loop of check_conflicts for one entry: a record or nothing
ConflictsAt(f, config_name, target) ==
    IF (Exists(f, target) \/ IsSymlink(f, target))
       /\ ~AlreadyLinked(f, config_name, target)
    THEN <<[name |-> config_name, path |-> target,
            type |-> ItemType(f, target),
            is_symlink |-> IsSymlink(f, target)]>>
    ELSE <<>>

\* ConfigManager.check_conflicts(profile): the list of conflict records
RECURSIVE check_conflicts(_, _)
check_conflicts(f, cp) ==
    IF cp = <<>> THEN <<>>
    ELSE ConflictsAt(f, cp[1][1], ExpandUser(cp[1][2])) \o check_conflicts(f, Tail(cp))

----------------------------------------------------------------------------
(* BackupManager *)

\* BackupManager.create_backup_directory: [fs, ok]
create_backup_directory(f) == MkdirP(f, backup_dir)

\* copy2 once destination.parent.mkdir returned `mk`
CopyAfterMkdir(mk, source, destination) ==
    IF ~mk.ok THEN mk ELSE CopyFile(mk.fs, source, destination)

\* the copy step of backup_file: file, directory, or nothing at all
BackupCopy(f, source, destination) ==
    IF IsFile(f, source)
    THEN CopyAfterMkdir(MkdirP(f, Parent(destination)), source, destination)
    ELSE IF IsDir(f, source) THEN CopyTree(f, source, destination)
    ELSE [fs |-> f, ok |-> TRUE]

\* the entry backup_file appends to backup_log
LogEntry(f, source, destination) ==
    [source |-> source, destination |-> destination,
     type |-> IF IsDir(f, source) THEN "directory" ELSE "file",
     timestamp |-> timestamp]

\* backup_file once the copy returned `cp`: the entry is appended on success only
BackupLogged(cp, log, source, destination) ==
    IF cp.ok
    THEN [fs |-> cp.fs, ret |-> TRUE, status |-> "ok",
          log |-> Append(log, LogEntry(cp.fs, source, destination))]
    ELSE [fs |-> cp.fs, ret |-> FALSE, status |-> "ok", log |-> log]

\* line 39: backup_name = name or source.name ("" stands for name=None)
BackupName(source, name) == IF name = "" THEN Name(source) ELSE name

\* BackupManager.backup_file(source, name): [fs, ret, log, status]; source.exists()
\* of line 34 stands before the try, so a PermissionError of stat leaves the call
backup_file(f, log, source, name) ==
    IF Denied(f, source)
    THEN [fs |-> f, ret |-> FALSE, status |-> "PermissionError", log |-> log]
    ELSE IF ~Exists(f, source)
    THEN [fs |-> f, ret |-> FALSE, status |-> "ok", log |-> log]
    ELSE BackupLogged(BackupCopy(f, source, Append(backup_dir, BackupName(source, name))),
                      log, source, Append(backup_dir, BackupName(source, name)))

TriState(b) ==
    [fs |-> b.fs, log |-> b.log, status |-> b.status,
     ret |-> IF b.ret THEN "True" ELSE "False"]

\* the body of the loop of backup_configs for one entry; path.exists() stands
\* outside any try, so a PermissionError of stat leaves backup_configs
BackupOne(f, log, name, path) ==
    IF Denied(f, path)
    THEN [fs |-> f, log |-> log, status |-> "PermissionError", ret |-> "None"]
    ELSE IF Exists(f, path) THEN TriState(backup_file(f, log, path, name))
    ELSE [fs |-> f, log |-> log, status |-> "ok", ret |-> "None"]

BackupJoin(name, one, rest) ==
    [fs |-> rest.fs, log |-> rest.log, status |-> rest.status,
     results |-> IF rest.status = "ok" THEN <<<<name, one.ret>>>> \o rest.results
                 ELSE <<>>]

\* BackupManager.backup_configs(config_paths): [fs, results, log, status]
\* results: <<name, "True" | "False" | "None">> in the order of config_paths;
\* status: "ok" when the call returns, else the exception that leaves it
RECURSIVE backup_configs(_, _, _)
BackupRest(one, cp) ==
    IF one.status # "ok"
    THEN [fs |-> one.fs, log |-> one.log, status |-> one.status, results |-> <<>>]
    ELSE BackupJoin(cp[1][1], one, backup_configs(one.fs, one.log, Tail(cp)))

backup_configs(f, log, cp) ==
    IF cp = <<>> THEN [fs |-> f, results |-> <<>>, log |-> log, status |-> "ok"]
    ELSE BackupRest(BackupOne(f, log, cp[1][1], ExpandUser(cp[1][2])), cp)

\* BackupManager.save_backup_log: [fs, ok, text]; open(log_file, "w") needs the
\* session directory
save_backup_log(f, log) ==
    IF IsDir(f, backup_dir) /\ Lstat(f, log_file).k \in {"none", "file"}
    THEN [fs |-> Put(f, log_file, File(0, TRUE)), ok |-> TRUE, text |-> log]
    ELSE [fs |-> f, ok |-> FALSE, text |-> <<>>]

----------------------------------------------------------------------------
(* Profile documents: a Python dict is an ordered list of <<key, value>>     *)
(* pairs with distinct keys; a value is a scalar, a list or a mapping        *)

Scalar(x) == [t |-> "scalar", s |-> x, m |-> <<>>]
ListOf(x) == [t |-> "list", s |-> x, m |-> <<>>]
Map(m) == [t |-> "map", s |-> "", m |-> m]

Keys(d) == { d[i][1] : i \in 1..Len(d) }
HasKey(d, k) == k \in Keys(d)
Get(d, k) == d[CHOOSE i \in 1..Len(d) : d[i][1] = k][2]

\* d[k] = v: an existing key keeps its place, a new key goes last
DictSet(d, k, v) ==
    IF HasKey(d, k) THEN [i \in 1..Len(d) |-> IF d[i][1] = k THEN <<k, v>> ELSE d[i]]
    ELSE Append(d, <<k, v>>)

\* d.update(e)
RECURSIVE DictUpdate(_, _)
DictUpdate(d, e) ==
    IF e = <<>> THEN d ELSE DictUpdate(DictSet(d, e[1][1], e[1][2]), Tail(e))

\* the profile store: name -> [exists, doc]; Absent: no file of that name
Absent == [exists |-> FALSE, doc |-> <<>>]
Present(doc) == [exists |-> TRUE, doc |-> doc]

\* ConfigManager.load_profile: the document, or FileNotFoundError
load_profile(store, profile_name) ==
    IF ~store[profile_name].exists
    THEN [status |-> "FileNotFoundError", value |-> <<>>]
    ELSE [status |-> "ok", value |-> store[profile_name].doc]

Ok(m) == [status |-> "ok", value |-> m]
Raised(e) == [status |-> e, value |-> <<>>]

\* merged["overrides"].update(additional["overrides"])
UpdateOverrides(m, mine, theirs) ==
    IF mine.t # "map" THEN Raised("AttributeError")
    \* dict.update of a string or of a list of names: ValueError
    ELSE IF theirs.t # "map" THEN Raised("ValueError")
    ELSE Ok(DictSet(m, "overrides", Map(DictUpdate(mine.m, theirs.m))))

\* if "overrides" not in merged: merged["overrides"] = {}
WithOverrides(m) == IF HasKey(m, "overrides") THEN m ELSE DictSet(m, "overrides", Map(<<>>))

\* "Deep merge overrides": [status, value]
MergeOverrides(m, additional) ==
    IF ~HasKey(additional, "overrides") THEN Ok(m)
    ELSE UpdateOverrides(WithOverrides(m), Get(WithOverrides(m), "overrides"),
                         Get(additional, "overrides"))

\* a merge step in which a key already present keeps its value
MergeField_FirstWins(m, key, value) ==
    IF HasKey(m, key) THEN Ok(m) ELSE Ok(DictSet(m, key, value))

\* one step of "Merge other fields": [status, value]
MergeField(m, key, value) ==
    IF value.t = "map" /\ HasKey(m, key)
    THEN \* merged[key].update(value): only a dict has update
         IF Get(m, key).t = "map"
         THEN Ok(DictSet(m, key, Map(DictUpdate(Get(m, key).m, value.m))))
         ELSE Raised("AttributeError")
    ELSE Ok(DictSet(m, key, value))

\* "Merge other fields": the items of the overlay in order, overrides skipped
RECURSIVE MergeFields(_, _)
MergeFieldsAfter(one, items) ==
    IF one.status # "ok" THEN one ELSE MergeFields(one.value, items)

MergeFields(m, items) ==
    IF items = <<>> THEN Ok(m)
    ELSE IF items[1][1] = "overrides" THEN MergeFields(m, Tail(items))
    ELSE MergeFieldsAfter(MergeField(m, items[1][1], items[1][2]), Tail(items))

\* the body of the loop of merge_profiles for one overlay that loaded
MergeFieldsOnto(o, additional) ==
    IF o.status # "ok" THEN o ELSE MergeFields(o.value, additional)

MergeOne(m, additional) == MergeFieldsOnto(MergeOverrides(m, additional), additional)

\* a loop that gives up at the first overlay that does not exist
RECURSIVE MergeLoop_StopsAtMissing(_, _, _, _)
MergeLoop_StopsAfter(store, one, names, warnings) ==
    IF one.status # "ok"
    THEN [status |-> one.status, value |-> <<>>, warnings |-> warnings]
    ELSE MergeLoop_StopsAtMissing(store, one.value, names, warnings)

MergeLoop_StopsAtMissing(store, m, names, warnings) ==
    IF names = <<>> THEN [status |-> "ok", value |-> m, warnings |-> warnings]
    ELSE IF load_profile(store, names[1]).status = "FileNotFoundError"
         THEN [status |-> "ok", value |-> m, warnings |-> Append(warnings, names[1])]
    ELSE MergeLoop_StopsAfter(store, MergeOne(m, load_profile(store, names[1]).value),
                              Tail(names), warnings)

\* the loop of merge_profiles: [status, value, warnings]
RECURSIVE MergeLoop(_, _, _, _)
MergeLoopAfter(store, one, names, warnings) ==
    IF one.status # "ok"
    THEN [status |-> one.status, value |-> <<>>, warnings |-> warnings]
    ELSE MergeLoop(store, one.value, names, warnings)

MergeLoop(store, m, names, warnings) ==
    IF names = <<>> THEN [status |-> "ok", value |-> m, warnings |-> warnings]
    ELSE IF load_profile(store, names[1]).status = "FileNotFoundError"
         \* except FileNotFoundError: print a warning, go on
         THEN MergeLoop(store, m, Tail(names), Append(warnings, names[1]))
    ELSE MergeLoopAfter(store, MergeOne(m, load_profile(store, names[1]).value),
                        Tail(names), warnings)

\* a merge_profiles that starts from an empty document when the base is missing
merge_profiles_BaseOptional(store, base_profile, additional_profiles) ==
    IF load_profile(store, base_profile).status # "ok"
    THEN MergeLoop(store, <<>>, additional_profiles, <<base_profile>>)
    ELSE MergeLoop(store, load_profile(store, base_profile).value,
                   additional_profiles, <<>>)

\* ConfigManager.merge_profiles(base_profile, additional_profiles)
merge_profiles(store, base_profile, additional_profiles) ==
    IF load_profile(store, base_profile).status # "ok"
    THEN [status |-> load_profile(store, base_profile).status, value |-> <<>>,
          warnings |-> <<>>]
    ELSE MergeLoop(store, load_profile(store, base_profile).value,
                   additional_profiles, <<>>)

\* profile.get("config_paths", {})
ConfigPathsOf(profile) ==
    IF HasKey(profile, "config_paths") THEN Get(profile, "config_paths").m ELSE <<>>

----------------------------------------------------------------------------
(* ToolInstaller *)

\* the ~/.zshrc the oh-my-zsh install script generates from its template
ZshrcTemplate == File(9, TRUE)

\* the oh-my-zsh install script, run with RUNZSH=no CHSH=no; it is downloaded, not
\* part of the repository, and modelled by its documentation: it clones into
\* ~/.oh-my-zsh, moves an existing ~/.zshrc to ~/.zshrc.pre-oh-my-zsh and writes
\* a new ~/.zshrc
OhMyZshScript(f) ==
    [q \in AllPaths |->
        IF q = oh_my_zsh_dir THEN Dir
        ELSE IF q = zshrc THEN ZshrcTemplate
        ELSE IF q = zshrc_old /\ f[zshrc].k \in {"file", "link"} THEN f[zshrc]
        ELSE f[q]]

\* what `sh -c "$(curl -fsSL ...)"` can come to: the script ran to its end; the
\* script, or sh itself, failed; curl fetched nothing, so that sh ran an empty
\* script and exited 0
ScriptOutcomes == {"installed", "failed", "not downloaded"}

\* ToolInstaller.install_oh_my_zsh: [fs, ret]; `outcome` is the outcome of the
\* command (curl, git and the network decide it)
install_oh_my_zsh(f, outcome) ==
    IF Exists(f, oh_my_zsh_dir) THEN [fs |-> f, ret |-> TRUE]
    ELSE IF outcome = "installed" THEN [fs |-> OhMyZshScript(f), ret |-> TRUE]
    ELSE [fs |-> f, ret |-> outcome = "not downloaded"]

\* plugin_urls
KnownPlugins == {"zsh-autosuggestions", "zsh-syntax-highlighting", "powerlevel10k"}

\* the target_dir of install_zsh_plugin
PluginDir(plugin) ==
    IF plugin = "powerlevel10k"
    THEN Append(custom_themes, "powerlevel10k")
    ELSE Append(custom_plugins, plugin)

\* what run_command(["git", "clone", ...]) can come to: the clone succeeded; git
\* exited with an error (CalledProcessError, caught); there is no git executable
\* (FileNotFoundError, which run_command does not catch)
CloneOutcomes == {"cloned", "failed", "no git"}

\* git clone once target_dir.parent.mkdir returned `mk`; neither stands in a try
PluginCloned(mk, target_dir, outcome) ==
    IF ~mk.ok THEN [fs |-> mk.fs, ret |-> FALSE, status |-> "OSError"]
    ELSE IF outcome = "no git"
    THEN [fs |-> mk.fs, ret |-> FALSE, status |-> "FileNotFoundError"]
    ELSE IF outcome = "cloned"
    THEN [fs |-> Put(mk.fs, target_dir, Dir), ret |-> TRUE, status |-> "ok"]
    ELSE [fs |-> mk.fs, ret |-> FALSE, status |-> "ok"]

\* ToolInstaller.install_zsh_plugin(plugin): [fs, ret, status]; `outcome` is the
\* outcome of git clone
install_zsh_plugin(f, plugin, outcome) ==
    IF plugin \notin KnownPlugins THEN [fs |-> f, ret |-> FALSE, status |-> "ok"]
    \* target_dir.exists() below a directory of mode 000
    ELSE IF Denied(f, PluginDir(plugin))
    THEN [fs |-> f, ret |-> FALSE, status |-> "PermissionError"]
    ELSE IF Exists(f, PluginDir(plugin)) THEN [fs |-> f, ret |-> TRUE, status |-> "ok"]
    ELSE PluginCloned(MkdirP(f, Parent(PluginDir(plugin))), PluginDir(plugin), outcome)

\* for plugin in zsh_plugins: install_zsh_plugin(plugin); [fs, status]
RECURSIVE InstallPlugins(_, _, _)
InstallPluginsAfter(one, plugins, outcomes) ==
    IF one.status # "ok" THEN [fs |-> one.fs, status |-> one.status]
    ELSE InstallPlugins(one.fs, plugins, outcomes)

InstallPlugins(f, plugins, outcomes) ==
    IF plugins = <<>> THEN [fs |-> f, status |-> "ok"]
    ELSE InstallPluginsAfter(install_zsh_plugin(f, plugins[1], outcomes[1]),
                             Tail(plugins), Tail(outcomes))

\* profile.get("zsh_plugins", [])
ZshPluginsOf(profile) ==
    IF HasKey(profile, "zsh_plugins") THEN Get(profile, "zsh_plugins").s ELSE <<>>

----------------------------------------------------------------------------
(* Initial states *)

\* the descriptors: at most one entry per config name, in either order
Pairs == Names \X Targets
Descriptors ==
    {<<>>} \cup { <<e>> : e \in Pairs }
           \cup { <<d[1], d[2]>> : d \in { x \in Pairs \X Pairs : x[1][1] # x[2][1] } }

\* a filesystem from the nodes at the paths that vary
MkFs(p, pq, r, o, a, aq, b) ==
    [x \in AllPaths |->
        CASE x \in {Home, DotfilesRoot, configs_dir} -> Dir
          [] x = Home \o <<"p">> -> p
          [] x = Home \o <<"p", "q">> -> pq
          [] x = Home \o <<"r">> -> r
          [] x = Home \o <<"o">> -> o
          [] x = configs_dir \o <<"a">> -> a
          [] x = configs_dir \o <<"a", "q">> -> aq
          [] x = configs_dir \o <<"b">> -> b
          [] OTHER -> None]

\* links into the store, and a link to a path outside it
LinkNodes == { Link(configs_dir \o <<"a">>), Link(configs_dir \o <<"b">>),
               Link(Home \o <<"o">>) }

\* the filesystems with `top` at ~/p, `inside` at ~/p/q and `other` at ~/o
FileSystems(top, inside, other) ==
    { MkFs(p, pq, r, o, a, aq, b) :
        p \in top, pq \in inside,
        r \in {None, File(3, TRUE)},
        o \in other,
        a \in {None, File(5, TRUE), Dir},
        aq \in {None, File(6, TRUE)},
        b \in {None, File(7, TRUE)} }

\* a node below a path that is no directory does not exist
WellFormed(f) ==
    \A x \in AllPaths : f[x].k # "none" => NodeAt(f, Parent(x)).k = "dir"

NoCall == [op |-> "none", force |-> FALSE, rev |-> FALSE]
NoLink == [name |-> "", target |-> <<>>, force |-> FALSE, ret |-> FALSE]
NoMerge == [status |-> "none", value |-> <<>>, warnings |-> <<>>,
            base |-> "", overlays |-> <<>>]
NoManifest == [written |-> FALSE, text |-> <<>>]
NoResults == [status |-> "none", value |-> <<>>]
\* DeviceDetector.get_profile_name: f"{self.os_type}.yml"; the overlays of
\* DotfilesInstaller.load_profiles: f"{profile_type}.yml"
BaseProfile == "linux.yml"
ProfileTypes == {"work", "personal"}
OverlayName(profile_type) == IF profile_type = "work" THEN "work.yml" ELSE "personal.yml"
\* the names a caller may pass: the three profiles and one that is never there
ProfileNames == {BaseProfile} \cup { OverlayName(t) : t \in ProfileTypes }
                    \cup {"missing.yml"}
NoProfiles == [n \in ProfileNames |-> Absent]

InitRest ==
    /\ pre = fs
    /\ hist = <<>>
    /\ deploy_results = <<>>
    /\ backup_results = NoResults
    /\ conflicts = <<>>
    /\ link = NoLink
    /\ removed = <<>>
    /\ backup_log = <<>>
    /\ pre_log = <<>>
    /\ manifest = NoManifest
    /\ merged = NoMerge

\* library use of ConfigManager: any filesystem whose directories can be
\* searched, any descriptor
Init ==
    /\ fs \in { f \in FileSystems({None, File(1, TRUE), Fifo, Dir} \cup LinkNodes,
                                  {None, File(2, TRUE), Link(configs_dir \o <<"b">>)},
                                  {None}) : WellFormed(f) }
    /\ config_paths \in Descriptors
    /\ pc = "lib"
    /\ profiles = NoProfiles
    /\ InitRest

----------------------------------------------------------------------------
(* ConfigManager called as a library *)

Called(op, force) == Append(hist, [op |-> op, force |-> force, rev |-> FALSE])
\* a call that may remove a directory: the listing order it met is kept
CalledListing(op, force, rev) == Append(hist, [op |-> op, force |-> force, rev |-> rev])

Deployed(r) == fs' = r.fs /\ deploy_results' = r.results /\ removed' = r.removed

DeployConfigs(force, rev) ==
    /\ pc = "lib" /\ Len(hist) < MaxCalls
    /\ Deployed(deploy_configs(fs, config_paths, force, rev))
    /\ pre' = fs
    /\ hist' = CalledListing("deploy_configs", force, rev)
    /\ UNCHANGED <<config_paths, backup_results, conflicts, link, backup_log,
                   pre_log, manifest, pc, profiles, merged>>

CheckConflicts ==
    /\ pc = "lib" /\ Len(hist) < MaxCalls
    /\ conflicts' = check_conflicts(fs, config_paths)
    /\ pre' = fs
    /\ hist' = Called("check_conflicts", FALSE)
    /\ UNCHANGED <<fs, config_paths, deploy_results, backup_results, link, removed,
                   backup_log, pre_log, manifest, pc, profiles, merged>>

SymlinkCreated(r, name, target, force) ==
    /\ fs' = r.fs
    /\ link' = [name |-> name, target |-> target, force |-> force, ret |-> r.ret]
    /\ removed' = r.removed

\* create_symlink(configs_dir / name, target, force) for an entry of config_paths
CreateSymlink(i, force, rev) ==
    /\ pc = "lib" /\ Len(hist) < MaxCalls
    /\ SymlinkCreated(create_symlink(fs, Append(configs_dir, config_paths[i][1]),
                                     config_paths[i][2], force, rev),
                      config_paths[i][1], config_paths[i][2], force)
    /\ pre' = fs
    /\ hist' = CalledListing("create_symlink", force, rev)
    /\ UNCHANGED <<config_paths, deploy_results, backup_results, conflicts,
                   backup_log, pre_log, manifest, pc, profiles, merged>>

Next ==
    \/ \E force \in BOOLEAN, rev \in BOOLEAN : DeployConfigs(force, rev)
    \/ CheckConflicts
    \/ \E i \in 1..Len(config_paths), force \in BOOLEAN, rev \in BOOLEAN :
            CreateSymlink(i, force, rev)

Spec == Init /\ [][Next]_vars

----------------------------------------------------------------------------
(* ConfigManager called as a library: targets that cannot be removed *)

\* filesystem f with node x as the second entry of ~/p
WithExtra(f, x) == [f EXCEPT ![Home \o <<"p", "x">>] = x]

\* ~/p is a directory; each of its two entries is missing, a file or a
\* directory of mode 000
InitLink ==
    /\ fs \in { g \in { WithExtra(f, x) :
                          f \in FileSystems({None, File(1, TRUE), Dir,
                                             Link(configs_dir \o <<"a">>)},
                                            {None, File(2, TRUE), DirNoAccess},
                                            {None}),
                          x \in {None, File(4, TRUE), DirNoAccess} } : WellFormed(g) }
    /\ config_paths \in Descriptors
    /\ pc = "lib"
    /\ profiles = NoProfiles
    /\ InitRest

SpecLink == InitLink /\ [][Next]_vars

----------------------------------------------------------------------------
(* BackupManager called as a library: one session *)

\* targets include unreadable files, directories holding one or a named pipe,
\* and directories of mode 000
InitBackup ==
    /\ fs \in { f \in FileSystems({None, File(1, TRUE), File(1, FALSE), Fifo, Dir,
                                   DirNoAccess} \cup LinkNodes,
                                  {None, File(2, TRUE), File(2, FALSE), Fifo,
                                   DirNoAccess, Link(configs_dir \o <<"b">>)},
                                  {None}) : WellFormed(f) }
    /\ config_paths \in Descriptors
    /\ pc = "session"
    /\ profiles = NoProfiles
    /\ InitRest

CreateBackupDirectory ==
    /\ pc = "session" /\ Len(hist) < MaxCalls
    /\ fs' = create_backup_directory(fs).fs
    /\ pre' = fs
    /\ pre_log' = backup_log
    /\ hist' = Called("create_backup_directory", FALSE)
    /\ UNCHANGED <<config_paths, deploy_results, backup_results, conflicts, link,
                   removed, backup_log, manifest, pc, profiles, merged>>

BackedUpAll(r) ==
    /\ fs' = r.fs
    /\ backup_results' = [status |-> r.status, value |-> r.results]
    /\ backup_log' = r.log

BackupConfigs ==
    /\ pc = "session" /\ Len(hist) < MaxCalls
    /\ BackedUpAll(backup_configs(fs, backup_log, config_paths))
    /\ pre' = fs
    /\ pre_log' = backup_log
    /\ hist' = Called("backup_configs", FALSE)
    /\ UNCHANGED <<config_paths, deploy_results, conflicts, link, removed,
                   manifest, pc, profiles, merged>>

FileBackedUp(r, name, target) ==
    /\ fs' = r.fs
    /\ backup_log' = r.log
    /\ backup_results' = [status |-> r.status, value |-> <<>>]
    /\ link' = [name |-> name, target |-> target, force |-> FALSE, ret |-> r.ret]

\* backup_file(path, name) and backup_file(path) for an entry of the descriptor
BackupFile(i, named) ==
    /\ pc = "session" /\ Len(hist) < MaxCalls
    /\ FileBackedUp(backup_file(fs, backup_log, ExpandUser(config_paths[i][2]),
                                IF named THEN config_paths[i][1] ELSE ""),
                    IF named THEN config_paths[i][1] ELSE "", config_paths[i][2])
    /\ pre' = fs
    /\ pre_log' = backup_log
    /\ hist' = Called("backup_file", FALSE)
    /\ UNCHANGED <<config_paths, deploy_results, conflicts, removed, manifest, pc,
                   profiles, merged>>

LogSaved(r) ==
    /\ fs' = r.fs
    /\ manifest' = IF r.ok THEN [written |-> TRUE, text |-> r.text] ELSE manifest

\* save_backup_log raises when the session directory is missing
SaveBackupLog ==
    /\ pc = "session" /\ Len(hist) < MaxCalls
    /\ LogSaved(save_backup_log(fs, backup_log))
    /\ pre' = fs
    /\ pre_log' = backup_log
    /\ hist' = Called("save_backup_log", FALSE)
    /\ UNCHANGED <<config_paths, deploy_results, backup_results, conflicts, link,
                   removed, backup_log, pc, profiles, merged>>

NextBackup == CreateBackupDirectory \/ BackupConfigs \/ SaveBackupLog
    \/ \E i \in 1..Len(config_paths), named \in BOOLEAN : BackupFile(i, named)

SpecBackup == InitBackup /\ [][NextBackup]_vars

----------------------------------------------------------------------------
(* DotfilesInstaller.run: the pipeline, one stage per step *)

\* a profile holding config_paths only
ProfileWith(cp) == <<<<"config_paths", Map(cp)>>>>

\* the plugin lists of a profile: a plugin, or a theme and a plugin
PluginLists == { <<"zsh-autosuggestions">>, <<"powerlevel10k", "zsh-syntax-highlighting">> }

\* a profile that also names zsh plugins
ProfileWithPlugins(cp, plugins) ==
    <<<<"config_paths", Map(cp)>>, <<"zsh_plugins", ListOf(plugins)>>>>

\* the descriptors of a run: those of the library, and config b at ~/.zshrc
RunDescriptors ==
    Descriptors \cup { <<<<"b", <<"~", ".zshrc">>>>>>,
                       <<<<"a", <<"~", "p">>>>, <<"b", <<"~", ".zshrc">>>>>> }

\* the profiles that name plugins: one entry and a plugin, or no entry and
\* either plugin list
PluginProfiles ==
    { ProfileWithPlugins(d, <<"zsh-autosuggestions">>) :
          d \in { x \in RunDescriptors : Len(x) = 1 } }
        \cup { ProfileWithPlugins(<<>>, l) : l \in PluginLists }

\* the base profile with any descriptor, with or without plugins, or missing;
\* work.yml missing or moving config a to ~/r; personal.yml missing
RunStores ==
    { [n \in ProfileNames |->
          IF n = BaseProfile THEN b ELSE IF n = "work.yml" THEN w ELSE Absent] :
        b \in {Absent} \cup { Present(ProfileWith(d)) : d \in RunDescriptors }
                       \cup { Present(d) : d \in PluginProfiles },
        w \in {Absent, Present(ProfileWith(<<<<"a", <<"~", "r">>>>>>))} }

\* filesystem f with node z at ~/.zshrc and node o at ~/.oh-my-zsh
WithShell(f, z, o) == [f EXCEPT ![zshrc] = z, ![oh_my_zsh_dir] = o]

InitRun ==
    /\ fs \in { g \in { WithShell(f, z, o) :
                          f \in FileSystems({None, File(1, TRUE), File(1, FALSE), Dir}
                                                \cup LinkNodes,
                                            {None, File(2, TRUE), Fifo},
                                            {None}),
                          z \in {None, File(8, TRUE)},
                          o \in {None, Dir, DirNoAccess} } : WellFormed(g) }
    /\ config_paths = <<>>
    /\ pc = "load"
    /\ profiles \in RunStores
    \* a ~/.oh-my-zsh of mode 000 where the profile names plugins
    /\ fs[oh_my_zsh_dir] = DirNoAccess =>
           fs[zshrc] = None /\ ZshPluginsOf(profiles[BaseProfile].doc) # <<>>
    /\ InitRest

ProfilesLoaded(m, overlays) ==
    /\ merged' = [status |-> m.status, value |-> m.value, warnings |-> m.warnings,
                  base |-> BaseProfile, overlays |-> overlays]
    /\ config_paths' = IF m.status = "ok" THEN ConfigPathsOf(m.value) ELSE <<>>
    /\ pc' = IF m.status = "ok" THEN "check" ELSE "exit"

\* load_profiles: merge the base profile with the chosen overlay, exit on error
RunLoadProfiles(profile_type) ==
    /\ pc = "load"
    /\ ProfilesLoaded(merge_profiles(profiles, BaseProfile, <<OverlayName(profile_type)>>),
                      <<OverlayName(profile_type)>>)
    /\ pre' = fs
    /\ pre_log' = backup_log
    /\ hist' = Called("merge_profiles", FALSE)
    /\ UNCHANGED <<fs, deploy_results, backup_results, conflicts, link, removed,
                   backup_log, manifest, profiles>>

\* step 3 of run: conflicts = self.check_conflicts(profile)
RunCheckConflicts ==
    /\ pc = "check"
    /\ conflicts' = check_conflicts(fs, config_paths)
    /\ pc' = IF conflicts' # <<>> THEN "confirm" ELSE "tools"
    /\ pre' = fs
    /\ pre_log' = backup_log
    /\ hist' = Called("check_conflicts", FALSE)
    /\ UNCHANGED <<fs, config_paths, deploy_results, backup_results, link, removed,
                   backup_log, manifest, profiles, merged>>

\* Confirm.ask("Proceed with installation?")
RunConfirm(proceed) ==
    /\ pc = "confirm"
    /\ pc' = IF proceed THEN "backup" ELSE "cancelled"
    /\ UNCHANGED <<fs, pre, config_paths, hist, deploy_results, backup_results,
                   conflicts, link, removed, backup_log, pre_log, manifest,
                   profiles, merged>>

\* the end of backup_existing_configs once save_backup_log returned `sv`
Saved(b, sv) ==
    [fs |-> sv.fs, results |-> b.results, log |-> b.log,
     status |-> IF sv.ok THEN "ok" ELSE "FileNotFoundError",
     manifest |-> [written |-> sv.ok, text |-> sv.text]]

\* backed_up = sum(1 for v in results.values() if v is True)
BackedUpCount(res) == Cardinality({ i \in 1..Len(res) : res[i][2] = "True" })

\* if backed_up > 0: save_backup_log(); return True either way; an exception of
\* backup_configs passes through
SaveIfAny(b, man) ==
    IF b.status = "ok" /\ BackedUpCount(b.results) > 0
    THEN Saved(b, save_backup_log(b.fs, b.log))
    ELSE [fs |-> b.fs, results |-> b.results, log |-> b.log, status |-> b.status,
          manifest |-> man]

\* DotfilesInstaller.backup_existing_configs: [fs, results, log, manifest, status]
backup_existing_configs(f, log, cp, man) ==
    SaveIfAny(backup_configs(create_backup_directory(f).fs, log, cp), man)

\* run() catches nothing: an exception of the backup phase ends it
SessionBackedUp(r) ==
    /\ fs' = r.fs
    /\ backup_results' = [status |-> r.status, value |-> r.results]
    /\ backup_log' = r.log
    /\ manifest' = r.manifest
    /\ pc' = IF r.status = "ok" THEN "tools" ELSE "crashed"

\* step 4 of run: the backup phase, entered only with conflicts
RunBackup ==
    /\ pc = "backup"
    /\ SessionBackedUp(backup_existing_configs(fs, backup_log, config_paths, manifest))
    /\ pre' = fs
    /\ pre_log' = backup_log
    /\ hist' = Called("backup_existing_configs", FALSE)
    /\ UNCHANGED <<config_paths, deploy_results, conflicts, link, removed,
                   profiles, merged>>

\* a step of install_tools: the filesystem it leaves, the prompt it waits at next
ToolStep(f, next) ==
    /\ fs' = f
    /\ pre' = fs
    /\ pc' = next
    /\ UNCHANGED <<config_paths, hist, deploy_results, backup_results, conflicts,
                   link, removed, backup_log, pre_log, manifest, profiles, merged>>

\* step 5 of run, install_tools: Confirm.ask("Install required tools?"); the
\* package manager of install_packages writes outside the paths of the model
RunInstallTools(install) ==
    /\ pc = "tools"
    /\ ToolStep(fs, IF install THEN "omz" ELSE "deploy")

\* Confirm.ask("Install Oh My Zsh?") and install_oh_my_zsh
RunOhMyZsh(answer, outcome) ==
    /\ pc = "omz"
    /\ ToolStep(IF answer THEN install_oh_my_zsh(fs, outcome).fs ELSE fs, "omp")

\* Confirm.ask("Install Oh My Posh?") and install_oh_my_posh, whose script writes
\* outside the paths of the model; the plugin prompt appears for a profile
\* that names plugins
RunOhMyPosh(answer) ==
    /\ pc = "omp"
    /\ ToolStep(fs, IF ZshPluginsOf(merged.value) # <<>> THEN "plugins" ELSE "opencode")

PluginsInstalled(r) == ToolStep(r.fs, IF r.status = "ok" THEN "opencode" ELSE "crashed")

\* Confirm.ask("Install zsh plugins?") and the loop over zsh_plugins
RunZshPlugins(answer, outcomes) ==
    /\ pc = "plugins"
    /\ PluginsInstalled(IF answer
                        THEN InstallPlugins(fs, ZshPluginsOf(merged.value), outcomes)
                        ELSE [fs |-> fs, status |-> "ok"])

\* Confirm.ask("Install OpenCode?"): install_opencode prints and waits at input()
RunOpenCode(answer) ==
    /\ pc = "opencode"
    /\ ToolStep(fs, IF answer THEN "opencode_input" ELSE "deploy")

\* input("Have you installed OpenCode? (y/n): "): the answer is not used by run
RunOpenCodeInput(response) ==
    /\ pc = "opencode_input"
    /\ response \in {"y", "n"}
    /\ ToolStep(fs, "deploy")

\* step 6 of run: deploy_configurations, force from Confirm.ask
RunDeploy(force, rev) ==
    /\ pc = "deploy"
    /\ Deployed(deploy_configs(fs, config_paths, force, rev))
    /\ pc' = "done"
    /\ pre' = fs
    /\ pre_log' = backup_log
    /\ hist' = CalledListing("deploy_configs", force, rev)
    /\ UNCHANGED <<config_paths, backup_results, conflicts, link, backup_log,
                   manifest, profiles, merged>>

NextRun ==
    \/ \E t \in ProfileTypes : RunLoadProfiles(t)
    \/ RunCheckConflicts
    \/ \E proceed \in BOOLEAN : RunConfirm(proceed)
    \/ RunBackup
    \/ \E install \in BOOLEAN : RunInstallTools(install)
    \/ \E answer \in BOOLEAN, outcome \in ScriptOutcomes : RunOhMyZsh(answer, outcome)
    \/ \E answer \in BOOLEAN : RunOhMyPosh(answer)
    \/ \E answer \in BOOLEAN,
          outcomes \in [1..Len(ZshPluginsOf(merged.value)) -> CloneOutcomes] :
            RunZshPlugins(answer, outcomes)
    \/ \E answer \in BOOLEAN : RunOpenCode(answer)
    \/ \E response \in {"y", "n"} : RunOpenCodeInput(response)
    \/ \E force \in BOOLEAN, rev \in BOOLEAN : RunDeploy(force, rev)

SpecRun == InitRun /\ [][NextRun]_vars

----------------------------------------------------------------------------
(* ConfigManager.merge_profiles called as a library: one call *)

NoValue == [t |-> "absent", s |-> "", m |-> <<>>]
Opt(k, v) == IF v = NoValue THEN <<>> ELSE <<<<k, v>>>>

\* a profile document with the keys of the shipped profiles, each optional
Doc(os, packages, cp, overrides) ==
    Opt("os", os) \o Opt("packages", packages) \o Opt("config_paths", cp)
        \o Opt("overrides", overrides)

\* flat documents
FlatA == <<<<"x", Scalar("1")>>, <<"y", Scalar("2")>>>>
FlatB == <<<<"y", Scalar("3")>>, <<"z", Scalar("4")>>>>
FlatC == <<<<"z", Scalar("5")>>, <<"w", Scalar("6")>>>>

LinuxDocs ==
    {FlatA} \cup
    { Doc(Scalar("linux"), pk, cp, ov) :
        pk \in {ListOf("base"), Map(<<<<"apt", <<"git">>>>>>)},
        cp \in {NoValue, Map(<<<<"a", <<"~", "p">>>>, <<"b", <<"~", "p", "q">>>>>>)},
        ov \in {NoValue, Map(<<<<"git", <<"home">>>>, <<"shell", <<"zsh">>>>>>)} }

WorkDocs ==
    {FlatB} \cup
    { Doc(NoValue, pk, cp, ov) :
        pk \in {NoValue, ListOf("work"), Map(<<<<"apt", <<"vim">>>>, <<"brew", <<"git">>>>>>)},
        cp \in {NoValue, Map(<<<<"a", <<"~", "r">>>>>>)},
        ov \in {NoValue, Map(<<<<"git", <<"work">>>>>>)} }

PersonalDocs ==
    {FlatC,
     Doc(Scalar("darwin"), Map(<<<<"brew", <<"fzf">>>>>>), NoValue,
         Map(<<<<"editor", <<"vim">>>>>>))}

MergeStores ==
    { [n \in ProfileNames |->
          CASE n = BaseProfile -> Present(l)
            [] n = "work.yml" -> w
            [] n = "personal.yml" -> p
            [] OTHER -> Absent] :
        l \in LinuxDocs,
        w \in {Absent} \cup { Present(d) : d \in WorkDocs },
        p \in {Absent} \cup { Present(d) : d \in PersonalDocs } }

\* the lists of at most n overlay names
RECURSIVE NameLists(_)
NameLists(n) ==
    IF n = 0 THEN {<<>>}
    ELSE NameLists(n - 1)
            \cup { Append(l, x) : l \in { y \in NameLists(n - 1) : Len(y) = n - 1 },
                                  x \in ProfileNames }

InitMerge ==
    /\ fs = MkFs(None, None, None, None, None, None, None)
    /\ config_paths = <<>>
    /\ pc = "merge"
    /\ profiles \in MergeStores
    /\ InitRest

ProfilesMerged(m, base, overlays) ==
    merged' = [status |-> m.status, value |-> m.value, warnings |-> m.warnings,
               base |-> base, overlays |-> overlays]

MergeProfiles(base, overlays) ==
    /\ pc = "merge" /\ hist = <<>>
    /\ ProfilesMerged(merge_profiles(profiles, base, overlays), base, overlays)
    /\ hist' = Called("merge_profiles", FALSE)
    /\ UNCHANGED <<fs, pre, config_paths, deploy_results, backup_results, conflicts,
                   link, removed, backup_log, pre_log, manifest, pc, profiles>>

NextMerge ==
    \E base \in ProfileNames, overlays \in NameLists(MaxOverlays) :
        MergeProfiles(base, overlays)

SpecMerge == InitMerge /\ [][NextMerge]_vars

----------------------------------------------------------------------------
(* Claims about ConfigManager *)

LastIs(op) == hist # <<>> /\ hist[Len(hist)].op = op
LastTwoAre(op1, op2) ==
    /\ Len(hist) >= 2
    /\ hist[Len(hist) - 1].op = op1
    /\ hist[Len(hist)].op = op2
AllTrue(res) == \A i \in 1..Len(res) : res[i][2] = TRUE
ForcedTwice ==
    /\ LastTwoAre("deploy_configs", "deploy_configs")
    /\ hist[Len(hist) - 1].force /\ hist[Len(hist)].force

\* C1: a second deploy_configs(profile, force=True) with the same descriptor
\* leaves the filesystem exactly as the first one left it.
C1_SecondDeployChangesNothing == ForcedTwice => fs = pre

\* C2: after a deployment in which every config name succeeded,
\* check_conflicts on the same descriptor returns the empty list.
C2_NoConflictAfterSuccess ==
    (LastTwoAre("deploy_configs", "check_conflicts") /\ AllTrue(deploy_results))
        => conflicts = <<>>

\* the case of C4: before the call the target is a plain file, a directory (or
\* another non-link entry), or a link that does not resolve to the canonical source
OccupiedTarget(f, name, target) ==
    LET t == ExpandUser(target)
    IN  \/ Lstat(f, t).k \in {"file", "dir", "fifo"}
        \/ /\ Lstat(f, t).k = "link"
           /\ Resolve(f, t) # Resolve(f, Append(configs_dir, name))

\* C4: create_symlink with force=False on such a target returns False and changes
\* nothing in the filesystem.
C4_NoForceNoMutation ==
    (LastIs("create_symlink") /\ ~link.force /\ OccupiedTarget(pre, link.name, link.target))
        => (link.ret = FALSE /\ fs = pre)

\* C4 witness: the call was made on an existing directory while the source exists
C4_Witness ==
    /\ LastIs("create_symlink") /\ ~link.force
    /\ Lstat(pre, ExpandUser(link.target)).k = "dir"
    /\ Exists(pre, Append(configs_dir, link.name))
    /\ link.ret = FALSE

RecordsOf(name) == { i \in 1..Len(conflicts) : conflicts[i].name = name }

\* C8 as stated: no record exactly when the target is absent, or is a link that
\* resolves to the resolved store source, whether or not the store entry exists
C8_QuietAsStated(f, name, target) ==
    LET t == ExpandUser(target)
    IN  \/ Lstat(f, t).k = "none"
        \/ /\ Lstat(f, t).k = "link"
           /\ Resolve(f, t) = Resolve(f, Append(configs_dir, name))

\* C8 (original statement): check_conflicts emits no record for an entry exactly in
\* the cases above and exactly one record otherwise.
C8_ConflictConditionAsStated ==
    LastIs("check_conflicts") =>
        \A i \in 1..Len(config_paths) :
            Cardinality(RecordsOf(config_paths[i][1])) =
                IF C8_QuietAsStated(fs, config_paths[i][1], config_paths[i][2]) THEN 0 ELSE 1

\* C8 as the code has it: the link counts only while the store entry exists
C8_Quiet(f, name, target) ==
    LET t == ExpandUser(target)
    IN  \/ Lstat(f, t).k = "none"
        \/ /\ Lstat(f, t).k = "link"
           /\ NodeAt(f, Resolve(f, Append(configs_dir, name))).k \in {"file", "dir"}
           /\ Resolve(f, t) = Resolve(f, Append(configs_dir, name))

\* C8 (amended): check_conflicts emits no record for an entry exactly when the
\* target is absent, or is a link resolving to the resolved store source and that
\* store entry exists; in every other case it emits exactly one record.
C8_ConflictCondition ==
    LastIs("check_conflicts") =>
        \A i \in 1..Len(config_paths) :
            Cardinality(RecordsOf(config_paths[i][1])) =
                IF C8_Quiet(fs, config_paths[i][1], config_paths[i][2]) THEN 0 ELSE 1

\* C8 witness: of two entries, one is linked correctly and silent, one is reported
C8_Witness ==
    /\ LastIs("check_conflicts") /\ Len(config_paths) = 2 /\ Len(conflicts) = 1
    /\ \E i \in 1..2 :
          /\ Lstat(fs, ExpandUser(config_paths[i][2])).k = "link"
          /\ RecordsOf(config_paths[i][1]) = {}

\* C9: every record's type is symlink for a link (dangling or not), otherwise
\* directory for a directory, otherwise file; is_symlink holds exactly for symlink.
C9_Classification ==
    LastIs("check_conflicts") =>
        \A i \in 1..Len(conflicts) :
            LET nd == Lstat(fs, conflicts[i].path)
            IN  /\ conflicts[i].type =
                      (IF nd.k = "link" THEN "symlink"
                       ELSE IF nd.k = "dir" THEN "directory" ELSE "file")
                /\ conflicts[i].is_symlink = (conflicts[i].type = "symlink")

\* C9 witness: a link to a directory is reported as symlink, beside a second record
C9_Witness ==
    /\ LastIs("check_conflicts") /\ Len(conflicts) = 2
    /\ \E i \in 1..2 :
          /\ conflicts[i].type = "symlink"
          /\ IsDir(fs, conflicts[i].path)
    /\ \E i \in 1..2 : conflicts[i].type # "symlink"

SourceOf(name) == Append(configs_dir, name)
HasSource(e) == Exists(pre, SourceOf(e[1]))

\* C12: deploy_configs returns exactly one boolean per config name, in order,
\* whatever fails on the way; a name whose store source does not exist gets False,
\* and the call leaves the filesystem as the same call without those names does
\* (unchanged when no name has a source).
C12_EveryEntryProcessed ==
    LastIs("deploy_configs") =>
        /\ Len(deploy_results) = Len(config_paths)
        /\ \A i \in 1..Len(config_paths) :
              /\ deploy_results[i][1] = config_paths[i][1]
              /\ deploy_results[i][2] \in BOOLEAN
              /\ ~HasSource(config_paths[i]) => deploy_results[i][2] = FALSE
        /\ fs = deploy_configs(pre, SelectSeq(config_paths, HasSource),
                               hist[Len(hist)].force, hist[Len(hist)].rev).fs
        /\ (\A i \in 1..Len(config_paths) : ~HasSource(config_paths[i])) => fs = pre

\* C12 witness: the first name has no source and fails over an occupied target,
\* the second is still linked
C12_Witness ==
    /\ LastIs("deploy_configs") /\ Len(config_paths) = 2
    /\ ~HasSource(config_paths[1])
    /\ Lstat(pre, ExpandUser(config_paths[1][2])).k = "file"
    /\ Lstat(fs, ExpandUser(config_paths[1][2])).k = "file"
    /\ deploy_results[1][2] = FALSE /\ deploy_results[2][2] = TRUE
    /\ fs # pre

\* C13: whenever create_symlink with force=True returns True, the target is a
\* symbolic link that resolves to the resolved source, whatever was there before,
\* and the target's parent is a directory.
C13_ForcedLinkPostcondition ==
    (LastIs("create_symlink") /\ link.force /\ link.ret) =>
        /\ IsSymlink(fs, ExpandUser(link.target))
        /\ Resolve(fs, ExpandUser(link.target)) = Resolve(pre, SourceOf(link.name))
        /\ IsDir(fs, Parent(ExpandUser(link.target)))

\* C13 witness: a directory with content was at the target and a link replaced it
C13_Witness ==
    /\ LastIs("create_symlink") /\ link.force /\ link.ret
    /\ Lstat(pre, ExpandUser(link.target)).k = "dir"
    /\ Entries(pre, ExpandUser(link.target)) # {}
    /\ Lstat(fs, ExpandUser(link.target)).k = "link"

\* the last two calls were check_conflicts and then create_symlink without force,
\* on the same filesystem, for a name whose store source exists
CheckedThenLinked ==
    /\ LastTwoAre("check_conflicts", "create_symlink")
    /\ ~link.force
    /\ Exists(pre, SourceOf(link.name))

\* create_symlink reached mkdir and symlink_to and one of them raised
LinkError ==
    /\ ~TargetPresent(pre, ExpandUser(link.target))
    /\ ~MakeLink(pre, Resolve(pre, SourceOf(link.name)), ExpandUser(link.target)).ok

\* C17: for a name whose store source exists, check_conflicts reports a conflict
\* exactly when create_symlink without force on the same filesystem returns False,
\* unless mkdir or symlink_to raised.
C17_DetectorAgreesWithDeployer ==
    (CheckedThenLinked /\ ~LinkError) => ((RecordsOf(link.name) # {}) <=> ~link.ret)

\* C17 witness: a dangling link at the target is reported and not replaced
C17_Witness ==
    /\ CheckedThenLinked /\ ~LinkError
    /\ Lstat(pre, ExpandUser(link.target)).k = "link"
    /\ ~Exists(pre, ExpandUser(link.target))
    /\ RecordsOf(link.name) # {}
    /\ ~link.ret

\* the two agree on a target that is free: no record, and the link is made
C17_WitnessFree ==
    /\ CheckedThenLinked /\ ~LinkError
    /\ Lstat(pre, ExpandUser(link.target)).k = "none"
    /\ RecordsOf(link.name) = {}
    /\ link.ret
    /\ Lstat(fs, ExpandUser(link.target)).k = "link"

\* mkdir raised for a free target: no record, and create_symlink returns False
C17_WitnessLinkError ==
    /\ CheckedThenLinked /\ LinkError
    /\ RecordsOf(link.name) = {}
    /\ ~link.ret

\* every call so far was deploy_configs with force=True
OnlyForcedDeploys ==
    /\ hist # <<>>
    /\ \A i \in 1..Len(hist) : hist[i].op = "deploy_configs" /\ hist[i].force

\* the paths under the store root configs/
StorePaths == { p \in AllPaths : IsPrefix(configs_dir, p) /\ p # configs_dir }

\* the files and directories of the store are what they were before the last call
StoreKept == \A p \in StorePaths : pre[p].k \in {"file", "dir"} => fs[p] = pre[p]

\* C18: in every sequence of deploy_configs calls with force=True, no file or
\* directory under configs/ is removed or replaced, also when a target lies
\* beneath another target that was replaced by a link into the store.
C18_StoreNeverDamaged == OnlyForcedDeploys => StoreKept

\* C18, targets apart: the same statement for the calls in which no target
\* resolves to a path under the store root when its entry is reached
C18_StoreKeptUnlessTargetInside ==
    (OnlyForcedDeploys
        /\ \A i \in 1..Len(removed) : ~IsPrefix(configs_dir, removed[i].phys))
        => StoreKept

\* a file of the store was removed through a target beneath a linked directory
C18_StoreFileReplaced ==
    /\ OnlyForcedDeploys /\ Len(hist) = 1
    /\ \E p \in StorePaths : pre[p].k = "file" /\ fs[p].k = "link"

\* the paths at or below the entry the target names before the last call
TargetTree == { p \in AllPaths : IsPrefix(PhysOf(pre, ExpandUser(link.target)), p) }

\* C19: whenever create_symlink returns False, the entry that was at the target
\* path before the call is still there unchanged.
C19_FailedLinkKeepsTarget ==
    (LastIs("create_symlink") /\ ~link.ret) => \A p \in TargetTree : fs[p] = pre[p]

\* the removal of create_symlink began and raised
RemovalFailed ==
    /\ link.force
    /\ Exists(pre, SourceOf(link.name))
    /\ TargetPresent(pre, ExpandUser(link.target))
    /\ ~AlreadyThere(pre, Resolve(pre, SourceOf(link.name)), ExpandUser(link.target))
    /\ ~RemoveExisting(pre, ExpandUser(link.target), hist[Len(hist)].rev).ok

\* C19, the other failures: a call that returns False without a failed removal
\* leaves the whole filesystem as it was
C19_KeptUnlessRemovalFails ==
    (LastIs("create_symlink") /\ ~link.ret /\ ~RemovalFailed) => fs = pre

\* rmtree removed a file of the target directory, then raised at a directory of
\* mode 000, and create_symlink returned False
C19_PartlyRemoved ==
    /\ LastIs("create_symlink") /\ ~link.ret /\ RemovalFailed
    /\ Lstat(pre, ExpandUser(link.target)).k = "dir"
    /\ \E p \in TargetTree : pre[p].k = "file" /\ fs[p].k = "none"
    /\ \E p \in TargetTree : pre[p] = DirNoAccess /\ fs[p] = DirNoAccess

----------------------------------------------------------------------------
(* Claims about merge_profiles *)

DocOf(name) == profiles[name].doc
Loaded(name) == profiles[name].exists
MergeCalled == LastIs("merge_profiles") /\ pc = "merge"

\* res is the entry-by-entry merge of a and b, b winning
EntryMerge(res, a, b) ==
    /\ Keys(res) = Keys(a) \cup Keys(b)
    /\ \A k \in Keys(b) : Get(res, k) = Get(b, k)
    /\ \A k \in Keys(a) \ Keys(b) : Get(res, k) = Get(a, k)

BothMaps(a, b, k) == HasKey(a, k) /\ Get(a, k).t = "map" /\ Get(b, k).t = "map"

\* C5: merging one overlay raises nothing, and for every key of the overlay other
\* than overrides the result is the entry-by-entry merge when both values are
\* mappings and the overlay's value in every other case.
C5_MergeRule ==
    (MergeCalled /\ Len(merged.overlays) = 1 /\ Loaded(merged.base)
        /\ Loaded(merged.overlays[1])) =>
        /\ merged.status = "ok"
        /\ \A k \in Keys(DocOf(merged.overlays[1])) \ {"overrides"} :
              IF BothMaps(DocOf(merged.base), DocOf(merged.overlays[1]), k)
              THEN /\ Get(merged.value, k).t = "map"
                   /\ EntryMerge(Get(merged.value, k).m, Get(DocOf(merged.base), k).m,
                                 Get(DocOf(merged.overlays[1]), k).m)
              ELSE Get(merged.value, k) = Get(DocOf(merged.overlays[1]), k)

\* the documents of a call in the order they are applied: the base, then the
\* overlays that exist
Chain == <<DocOf(merged.base)>>
            \o [i \in 1..Len(SelectSeq(merged.overlays, Loaded)) |->
                    DocOf(SelectSeq(merged.overlays, Loaded)[i])]

\* the last document of the chain that holds key k
LastHolder(k) == Chain[CHOOSE i \in 1..Len(Chain) :
                          /\ HasKey(Chain[i], k)
                          /\ \A j \in (i + 1)..Len(Chain) : ~HasKey(Chain[j], k)]

Reversed == merge_profiles(profiles, merged.overlays[1], <<merged.base>>)

Unloaded(name) == ~Loaded(name)
WithoutMissing ==
    merge_profiles(profiles, merged.base, SelectSeq(merged.overlays, Loaded))

\* C7: with an existing base, a call whose overlay list holds a name that does
\* not exist raises no exception, warns about every missing name in list order,
\* and returns the descriptor that the call without those names returns.
C7_MissingOverlaySkipped ==
    (MergeCalled /\ Loaded(merged.base)
        /\ \E i \in 1..Len(merged.overlays) : Unloaded(merged.overlays[i])) =>
        /\ merged.status = "ok"
        /\ merged.warnings = SelectSeq(merged.overlays, Unloaded)
        /\ WithoutMissing.status = "ok"
        /\ merged.value = WithoutMissing.value

\* C7, what the missing name itself does: it raises nothing of its own and the
\* call ends as it ends for the list without that name (the same descriptor, or
\* the same error of another overlay); when the call returns, every missing name
\* has been warned about, in list order.
C7_EndsAsWithoutMissing ==
    (MergeCalled /\ Loaded(merged.base)
        /\ \E i \in 1..Len(merged.overlays) : Unloaded(merged.overlays[i])) =>
        /\ merged.status # "FileNotFoundError"
        /\ merged.status = WithoutMissing.status
        /\ merged.value = WithoutMissing.value
        /\ merged.status = "ok" => merged.warnings = SelectSeq(merged.overlays, Unloaded)
        /\ IsPrefix(merged.warnings, SelectSeq(merged.overlays, Unloaded))

\* the missing name was skipped with a warning, then the next overlay, which
\* holds a mapping where the base holds a list, made the call raise
C7_RaisedAfterSkip ==
    /\ MergeCalled /\ Loaded(merged.base)
    /\ merged.overlays = <<"missing.yml", "work.yml">> /\ Loaded("work.yml")
    /\ HasKey(DocOf(merged.base), "packages") /\ HasKey(DocOf("work.yml"), "packages")
    /\ Get(DocOf(merged.base), "packages").t = "list"
    /\ Get(DocOf("work.yml"), "packages").t = "map"
    /\ merged.warnings = <<"missing.yml">>
    /\ merged.status = "AttributeError"

\* C7 witness: a missing name between two overlays that exist; the one before it
\* and the one after it both left their keys in the result
C7_Witness ==
    /\ MergeCalled /\ merged.base = BaseProfile
    /\ merged.overlays = <<"work.yml", "missing.yml", "personal.yml">>
    /\ DocOf(BaseProfile) = FlatA /\ Loaded("work.yml") /\ DocOf("work.yml") = FlatB
    /\ Loaded("personal.yml") /\ DocOf("personal.yml") = FlatC
    /\ merged.status = "ok" /\ merged.warnings = <<"missing.yml">>
    /\ Get(merged.value, "y") = Scalar("3") /\ Get(merged.value, "w") = Scalar("6")
    /\ Get(merged.value, "z") = Scalar("5")

----------------------------------------------------------------------------
(* Claims about BackupManager *)

ResultOf(i) == backup_results.value[i][2]

\* an item whose copy fails: an unreadable file; a directory that cannot be
\* listed, whose destination is taken, or that holds an entry that cannot be copied
CopyFails(f, path, name) ==
    LET nd == Stat(f, path)
    IN  \/ nd.k = "file" /\ ~nd.r
        \/ /\ nd.k = "dir"
           /\ \/ ~nd.r
              \/ Lstat(f, Append(backup_dir, name)).k # "none"
              \/ \E n \in Entries(f, path) :
                    LET c == Lstat(f, Append(path, n))
                    IN  c.k = "fifo" \/ (c.k \in {"file", "dir"} /\ ~c.r)

\* the sources of the items whose result is True, in order
RECURSIVE SucceededSources(_, _)
SucceededSources(res, cp) ==
    IF res = <<>> THEN <<>>
    ELSE (IF res[1][2] = "True" THEN <<ExpandUser(cp[1][2])>> ELSE <<>>)
            \o SucceededSources(Tail(res), Tail(cp))

SourcesOf(log) == [i \in 1..Len(log) |-> log[i].source]

\* C10: backup_configs raises nothing and returns a result for every item; an item
\* whose copy fails gets False, the items after it are still backed up, and the
\* log gains exactly the items that succeeded.
C10_FailureIsolated ==
    LastIs("backup_configs") =>
        /\ backup_results.status = "ok"
        /\ Len(backup_results.value) = Len(config_paths)
        /\ \A i \in 1..Len(config_paths) :
              LET name == config_paths[i][1]
                  path == ExpandUser(config_paths[i][2])
              IN  /\ backup_results.value[i][1] = name
                  /\ (Exists(pre, path) /\ CopyFails(pre, path, name))
                        => ResultOf(i) = "False"
                  /\ (Exists(pre, path) /\ ~CopyFails(pre, path, name))
                        => ResultOf(i) = "True"
                  /\ (IsFile(pre, path) /\ Stat(pre, path).r)
                        => /\ Lstat(fs, Append(backup_dir, name)).k = "file"
                           /\ Lstat(fs, Append(backup_dir, name)).d = Stat(pre, path).d
        /\ SourcesOf(backup_log) =
              SourcesOf(pre_log) \o SucceededSources(backup_results.value, config_paths)

\* C10, the calls that return: the same statement for every call of
\* backup_configs that raises nothing
C10_FailureIsolatedOnReturn ==
    (LastIs("backup_configs") /\ backup_results.status = "ok") => C10_FailureIsolated

\* the entries the last call appended to backup_log
NewEntries == { backup_log[i] : i \in (Len(pre_log) + 1)..Len(backup_log) }

\* the destination of entry e holds a copy of what was at its source, of the
\* type the entry records
CopiedAsLogged(e) ==
    LET src == Stat(pre, e.source)
        dst == Lstat(fs, e.destination)
    IN  /\ e.type = "directory" => (src.k = "dir" /\ dst.k = "dir")
        /\ e.type = "file" => (src.k = "file" /\ dst.k = "file" /\ dst.d = src.d)
        /\ e.type = "directory" =>
              \A n \in Entries(pre, e.source) :
                  Lstat(fs, Append(e.destination, n)).k
                      = Lstat(pre, Append(e.source, n)).k

\* the last call was backup_configs or backup_file itself
BackupCalled == LastIs("backup_configs") \/ LastIs("backup_file")

\* C14: every entry that backup_file appends to the log names a destination in
\* the session directory that holds a copy of the source, of the type the entry
\* records, for every kind of existing source.
C14_EntryMeansCopied ==
    BackupCalled => \A e \in NewEntries : CopiedAsLogged(e)

\* C14, regular sources: the same statement for the entries whose source is a
\* regular file or a directory
C14_EntryMeansCopiedRegular ==
    BackupCalled =>
        \A e \in NewEntries :
            Stat(pre, e.source).k \in {"file", "dir"} => CopiedAsLogged(e)

\* an entry was appended for a named pipe and nothing is at its destination
C14_PipeLogged ==
    /\ BackupCalled
    /\ \E e \in NewEntries :
          /\ Stat(pre, e.source).k = "fifo"
          /\ e.type = "file"
          /\ Lstat(fs, e.destination).k = "none"

\* the session holds a copy of what was at `path`, under `name`
CopyAt(path, name) ==
    CopiedAsLogged([source |-> path, destination |-> Append(backup_dir, name),
                    type |-> IF IsDir(pre, path) THEN "directory" ELSE "file"])

\* one result per name, in order; None exactly for a target that does not exist,
\* and then no entry is logged; False only for an existing target whose copy fails
TriStateShape ==
    /\ Len(backup_results.value) = Len(config_paths)
    /\ \A i \in 1..Len(config_paths) :
          LET name == config_paths[i][1]
              path == ExpandUser(config_paths[i][2])
          IN  /\ backup_results.value[i][1] = name
              /\ ResultOf(i) \in {"None", "True", "False"}
              /\ ResultOf(i) = "None" <=> ~Exists(pre, path)
              /\ ResultOf(i) = "None" => \A e \in NewEntries : e.source # path
              /\ ResultOf(i) = "False" => CopyFails(pre, path, name)

\* C16: backup_configs returns one result per name of its input: None exactly when
\* the target does not exist (nothing copied, nothing logged), True when the target
\* exists and its copy succeeded, False when the target exists and its copy failed.
C16_TriState ==
    LastIs("backup_configs") =>
        /\ backup_results.status = "ok"
        /\ TriStateShape
        /\ \A i \in 1..Len(config_paths) :
              ResultOf(i) = "True" =>
                  CopyAt(ExpandUser(config_paths[i][2]), config_paths[i][1])

\* C16, calls that return and regular targets: the same statement where True
\* promises a copy only for a target that is a regular file or a directory
C16_TriStateRegular ==
    (LastIs("backup_configs") /\ backup_results.status = "ok") =>
        /\ TriStateShape
        /\ \A i \in 1..Len(config_paths) :
              (ResultOf(i) = "True"
                  /\ Stat(pre, ExpandUser(config_paths[i][2])).k \in {"file", "dir"}) =>
                  CopyAt(ExpandUser(config_paths[i][2]), config_paths[i][1])

\* the call returned True for a named pipe of which the session holds nothing
C16_TrueWithoutCopy ==
    /\ LastIs("backup_configs") /\ backup_results.status = "ok"
    /\ \E i \in 1..Len(config_paths) :
          /\ ResultOf(i) = "True"
          /\ Stat(pre, ExpandUser(config_paths[i][2])).k = "fifo"
          /\ Lstat(fs, Append(backup_dir, config_paths[i][1])).k = "none"

----------------------------------------------------------------------------
(* Claims about the pipeline *)

\* a removed entry that was a file or directory before deployment began
PreExisting(rm) ==
    /\ rm.node.k \in {"file", "dir"}
    /\ NodeAt(pre, rm.phys) = rm.node

\* the session holds a logged copy of the removed target, taken before deployment
BackedUp(rm) ==
    \E i \in 1..Len(backup_log) :
        /\ backup_log[i].source = rm.target
        /\ Lstat(pre, backup_log[i].destination).k = rm.node.k
        /\ rm.node.k = "file" => Lstat(pre, backup_log[i].destination).d = rm.node.d
        /\ rm.node.k = "dir" =>
              \A n \in Entries(pre, rm.target) :
                  Lstat(pre, Append(backup_log[i].destination, n)).k
                      = Lstat(pre, Append(rm.target, n)).k

\* C3: in a run of the pipeline with force=True, every pre-existing file or
\* directory that deployment removed from a target path had been copied into the
\* session backup directory and logged before.
C3_BackupBeforeOverwrite ==
    (pc = "done" /\ hist[Len(hist)].force) =>
        \A i \in 1..Len(removed) : PreExisting(removed[i]) => BackedUp(removed[i])

\* the user's ~/.zshrc was backed up, the oh-my-zsh script then wrote a new one,
\* and deployment removed that one, which the session does not hold
C3_TemplateRemoved ==
    /\ pc = "done" /\ hist[Len(hist)].force
    /\ \E i \in 1..Len(backup_log) : backup_log[i].source = zshrc
    /\ \E i \in 1..Len(removed) :
          /\ removed[i].phys = zshrc /\ removed[i].node = ZshrcTemplate
          /\ ~BackedUp(removed[i])

\* the positions of run() between the backup stage and deployment
BeforeDeploy == {"tools", "omz", "omp", "plugins", "opencode", "opencode_input", "deploy"}

\* the backup stage of run() has been executed
BackupStageRan == \E i \in 1..Len(hist) : hist[i].op = "backup_existing_configs"

\* C11: in every run in which the backup stage executed, the session directory
\* holds the manifest backup_log.txt before deployment starts, whatever the outcome
\* of the individual backups.
C11_ManifestAlwaysWritten ==
    (BackupStageRan /\ pc \in BeforeDeploy) =>
        /\ manifest.written
        /\ Lstat(fs, log_file).k = "file"

\* C11, what the code does: the manifest is there exactly when some item was
\* backed up
C11_ManifestIffSomeBackup ==
    (BackupStageRan /\ pc \in BeforeDeploy) =>
        ((Lstat(fs, log_file).k = "file") <=> (BackedUpCount(backup_results.value) > 0))

\* the stages of run() after load_profiles
LaterStages == {"check_conflicts", "backup_existing_configs", "deploy_configs"}

\* C15: when the base profile is absent, load_profile and merge_profiles fail with
\* FileNotFoundError, no descriptor is produced, and the run ends before conflict
\* detection, creation of the session directory or any change of the filesystem.
C15_MissingBaseIsFatal ==
    (~profiles[BaseProfile].exists /\ hist # <<>>) =>
        /\ load_profile(profiles, BaseProfile).status = "FileNotFoundError"
        /\ merged.status = "FileNotFoundError"
        /\ merged.value = <<>>
        /\ config_paths = <<>>
        /\ pc = "exit"
        /\ \A i \in 1..Len(hist) : hist[i].op \notin LaterStages
        /\ conflicts = <<>> /\ backup_results = NoResults /\ backup_log = <<>>
        /\ deploy_results = <<>> /\ removed = <<>>
        /\ Lstat(fs, backup_dir).k = "none"
        /\ fs = pre

\* C15 witness: the run ended at load_profiles although the overlay is there and
\* a target is occupied
C15_Witness ==
    /\ ~profiles[BaseProfile].exists /\ profiles["work.yml"].exists
    /\ merged.overlays = <<"work.yml">>
    /\ pc = "exit"
    /\ Lstat(fs, ExpandUser(<<"~", "r">>)).k \in {"file", "dir"}

====
